---------------------------- MODULE Spec2Model ----------------------------
(***************************************************************************)
(* Listener lifecycle and session registry of the Telegram listener        *)
(* service (server.py, listener_worker.py).                                *)
(*                                                                         *)
(* The service is one asyncio event loop.  A request handler or a listener *)
(* task runs without interruption from one await to the next, so every     *)
(* action below is the code between two suspension points.  The awaits of  *)
(* the control plane are the two asyncio.wait_for calls (server.py 185,    *)
(* 210); the awaits of a listener task are its backend calls.              *)
(***************************************************************************)
EXTENDS Integers, Sequences, FiniteSets, TLC

\* ------------------------------------------------------------- bounds
MaxTasks   == 3      \* listener tasks that exist at one time
MaxReqs    == 2      \* control requests suspended in wait_for at one time
MaxGroupId == 4      \* group ids 1..MaxGroupId
MaxLen     == 2      \* length of a request's group list
MaxMsgId   == 2      \* message ids 1..MaxMsgId
MaxIssued  == 2      \* session strings the backend issues

\* Phones: the keys of database.json and of the registry.  Accounts: the
\* phones the requests of the small specifications are about.
Phones   == {"p1", "p2"}
Accounts == {"p1"}
TaskIds  == 1..MaxTasks
ReqIds   == 1..MaxReqs
GroupIds == 1..MaxGroupId

\* The dialogs of the account at the backend: client.get_dialogs() returns
\* the entities of groups 1 and 2; every other id is one the account is not in.
Dialogs == {1, 2}

\* The ids the backend resolves in a call for the one reference: those of the
\* dialogs and id 4, a channel that is not in the dialogs.  Id 3 is unknown.
Entities == Dialogs \cup {4}

\* A request's group reference, List[Union[int, str]]: an int, a string of
\* digits, or a string that int() rejects.
RawRefs ==
  [kind : {"int", "numstr"}, v : GroupIds] \cup {[kind |-> "badstr", v |-> 0]}

RECURSIVE SeqsUpTo(_, _)
SeqsUpTo(S, n) ==
  IF n = 0 THEN {<<>>}
  ELSE LET shorter == SeqsUpTo(S, n - 1)
       IN  shorter \cup {Append(s, x) : s \in {q \in shorter : Len(q) = n - 1}, x \in S}

RawGroupLists == SeqsUpTo(RawRefs, MaxLen)

\* What the backend delivers: event.chat_id, event.id, event.raw_text,
\* event.date.  The same (chat_id, id) may be delivered with another payload.
Payloads == {<<"hello", 1>>, <<"edited", 2>>}
Events ==
  {[chat_id |-> c, id |-> m, raw_text |-> p[1], date |-> p[2]] :
     c \in GroupIds, m \in 1..MaxMsgId, p \in Payloads}

VARIABLES
  db,          \* database.json: phone -> stored record
  PENDING,     \* phones with a pending login client
  LISTENERS,   \* the registry: phone -> the task handles stored under the key
  tasks,       \* every asyncio task made from start_user_listener
  req,         \* start/stop requests suspended in asyncio.wait_for
  disk,        \* data_<phone>.json and data_<phone>.json.tmp
  ret,         \* the response of the request that completed last
  issued       \* session strings issued by the backend so far

vars == <<db, PENDING, LISTENERS, tasks, req, disk, ret, issued>>

\* ------------------------------------------------------------- values
NoConf == [exists |-> FALSE, api |-> FALSE, session_string |-> 0, groups |-> <<>>]

NoFile == [state |-> "absent", content |-> <<>>]

NoTask ==
  [phone |-> "", session_string |-> 0, groups |-> <<>>, pc |-> "unborn",
   must_cancel |-> FALSE, client |-> "none", exit |-> "none",
   resolved |-> <<>>, collected |-> <<>>, seen |-> {}]

NoReq == [pc |-> "free", op |-> "", phone |-> "", groups |-> <<>>,
          session_string |-> 0, t |-> 0]

NoRet == [op |-> "", phone |-> "", status |-> ""]

Response(op, phone, status) == [op |-> op, phone |-> phone, status |-> status]

\* A record of database.json that an earlier run of the service left.
Configured ==
  [exists |-> TRUE, api |-> TRUE, session_string |-> 1, groups |-> <<>>]

\* The service has started: nothing in memory, no data files.  database.json
\* is one of confs.  nTasks task ids and nReqs request slots are in use; the
\* others stay "unused" for good.
StartedOn(phones, confs, nTasks, nReqs) ==
  /\ db \in {f \in [Phones -> confs \cup {NoConf}] :
               \A a \in Phones : IF a \in phones THEN f[a] \in confs
                                                 ELSE f[a] = NoConf}
  /\ issued = IF \E a \in Phones : db[a].session_string # 0 THEN 1 ELSE 0
  /\ PENDING = {}
  /\ LISTENERS = [a \in Phones |-> {}]
  /\ tasks = [t \in TaskIds |->
                IF t <= nTasks THEN NoTask ELSE [NoTask EXCEPT !.pc = "unused"]]
  /\ req = [r \in ReqIds |->
              IF r <= nReqs THEN NoReq ELSE [NoReq EXCEPT !.pc = "unused"]]
  /\ disk = [a \in Phones |-> [data |-> NoFile, tmp |-> NoFile]]
  /\ ret = NoRet

Started(confs, nTasks, nReqs) == StartedOn(Accounts, confs, nTasks, nReqs)

Init == Started({NoConf}, MaxTasks, MaxReqs)

\* ------------------------------------------------------------- helpers
Min(S) == CHOOSE x \in S : \A y \in S : x <= y

\* dict operations on the registry
DictGet(d, k) == IF d[k] = {} THEN 0 ELSE CHOOSE t \in d[k] : TRUE
DictPopAll(d, k) == [x \in DOMAIN d |-> {}]
DictPop(d, k) == [d EXCEPT ![k] = {}]
DictSetKeepsOld(d, k, t) == [d EXCEPT ![k] = @ \cup {t}]
DictSet(d, k, t) == [d EXCEPT ![k] = {t}]

\* asyncio.Task.done()
Done(ts, t) == ts[t].pc = "ended"

\* asyncio.Task.cancel(): a request to cancel, delivered at the task's next
\* step; no effect on a task that is done.
Cancel(ts, t) ==
  IF Done(ts, t) THEN ts ELSE [ts EXCEPT ![t].must_cancel = TRUE]

\* t and not t.done() and not t.cancelled()
Running(t) == t # 0 /\ ~Done(tasks, t)

Unborn == {t \in TaskIds : tasks[t].pc = "unborn"}
FreeReqs == {r \in ReqIds : req[r].pc = "free"}
StartsInFlight == {r \in ReqIds : req[r].op = "start"}

\* A task id is there for every start request that may still spawn.
CanSpawn == Cardinality(Unborn) > Cardinality(StartsInFlight)

\* A finished task that the registry does not hold, that no request awaits and
\* whose client is not connected is unreachable garbage: its id is free again.
Referenced(t, L, rq) ==
  \/ \E a \in Phones : t \in L[a]
  \/ \E r \in ReqIds : rq[r].t = t

Reap(ts, L, rq) ==
  [t \in TaskIds |->
     IF Done(ts, t) /\ ts[t].client # "connected" /\ ~Referenced(t, L, rq)
     THEN NoTask ELSE ts[t]]

\* The new values of the task table, the registry and the suspended requests.
Commit(ts, L, rq) ==
  /\ tasks' = Reap(ts, L, rq)
  /\ LISTENERS' = L
  /\ req' = rq

\* int(g) of server.py 167
IntOk(g) == g.kind \in {"int", "numstr"}
norm_groups_keep_all(raw) == [i \in 1..Len(raw) |-> raw[i].v]
norm_groups(raw) ==
  LET ok == SelectSeq(raw, IntOk) IN [i \in 1..Len(ok) |-> ok[i].v]

\* loop.create_task(start_user_listener(...))
Spawn(ts, t, phone, session_string, groups) ==
  [ts EXCEPT ![t] = [NoTask EXCEPT !.phone = phone,
                                   !.session_string = session_string,
                                   !.groups = groups,
                                   !.pc = "starting"]]

\* ------------------------------------------------------------- the Sink
LogKey(r) == <<r.chat_id, r.message_id>>

\* _atomic_write_json(path, data), stopped after k of its three steps: the
\* temp file opened and partly written, the temp file written in full, the
\* temp file renamed over the data file.
WriteInPlace(k, d, a, data) ==
  CASE k = 0 -> d
    [] k = 1 -> [d EXCEPT ![a].data = [state |-> "corrupt", content |-> <<>>]]
    [] OTHER -> [d EXCEPT ![a].data = [state |-> "valid", content |-> data]]

WriteSteps(k, d, a, data) ==
  CASE k = 0 -> d
    [] k = 1 -> [d EXCEPT ![a].tmp = [state |-> "corrupt", content |-> <<>>]]
    [] k = 2 -> [d EXCEPT ![a].tmp = [state |-> "valid", content |-> data]]
    [] OTHER -> [d EXCEPT ![a].tmp = NoFile,
                          ![a].data = [state |-> "valid", content |-> data]]

\* json.loads(data_file.read_text()) of both readers: the parsed list, or []
\* when the file is missing or does not parse.
ReadLog(d, a) ==
  IF d[a].data.state = "valid" THEN d[a].data.content ELSE <<>>

get_data(a) == ReadLog(disk, a)

\* ------------------------------------------------------------- session flow
\* POST /session/init: the code request to the backend succeeds or fails.
session_init(a, sent) ==
  /\ IF sent
     THEN /\ PENDING' = PENDING \cup {a}
          /\ db' = [db EXCEPT ![a].exists = TRUE, ![a].api = TRUE]
          /\ ret' = Response("session_init", a, "code_sent")
     ELSE /\ PENDING' = PENDING \ {a}
          /\ db' = db
          /\ ret' = Response("session_init", a, "error_400")
  /\ UNCHANGED <<LISTENERS, tasks, req, disk, issued>>

\* POST /session/complete: sign_in succeeds (the backend issues a session
\* string) or fails.
session_complete(a, signed_in) ==
  /\ IF a \notin PENDING
     THEN /\ ret' = Response("session_complete", a, "error_400")
          /\ UNCHANGED <<PENDING, db, issued>>
     ELSE IF signed_in
     THEN /\ issued < MaxIssued
          /\ issued' = issued + 1
          /\ PENDING' = PENDING \ {a}
          /\ db' = [db EXCEPT ![a].exists = TRUE, ![a].session_string = issued + 1]
          /\ ret' = Response("session_complete", a, "ok")
     ELSE /\ PENDING' = PENDING \ {a}
          /\ ret' = Response("session_complete", a, "error_400")
          /\ UNCHANGED <<db, issued>>
  /\ UNCHANGED <<LISTENERS, tasks, req, disk>>

\* POST /session/logout/{phone}
session_logout(a) ==
  LET task == DictGet(LISTENERS, a) IN
  /\ db' = IF db[a].exists THEN [db EXCEPT ![a].session_string = 0] ELSE db
  /\ Commit(IF task # 0 THEN Cancel(tasks, task) ELSE tasks,
            DictPop(LISTENERS, a), req)
  /\ ret' = Response("logout", a, "cleared")
  /\ UNCHANGED <<PENDING, disk, issued>>

\* ------------------------------------------------------------- listener control
\* prior_groups == norm_groups of server.py 178
SameGroupsNever(prior_groups, groups) == FALSE
SameGroups(prior_groups, groups) == prior_groups = groups

\* server.py 160: not conf or not conf.get("session_string")
NoSessionOnlyRecord(conf) == ~conf.exists
NoSession(conf) == ~conf.exists \/ conf.session_string = 0

\* server.py 189-198: create the task, store it in the registry, answer.
\* rq: the suspended requests once this one has answered.
SpawnAndRegister(a, session_string, groups, rq) ==
  LET task == Min(Unborn) IN
  /\ Commit(Spawn(tasks, task, a, session_string, groups),
            DictSet(LISTENERS, a, task), rq)
  /\ ret' = Response("start", a, "started")

\* t.cancel() followed by await asyncio.wait_for(t, timeout=5): the handler
\* is suspended in request slot r.  L: the registry as the handler leaves it.
Suspend(r, op, a, session_string, groups, t, L) ==
  Commit(Cancel(tasks, t), L,
         [req EXCEPT ![r] = [pc |-> "wait", op |-> op, phone |-> a,
                             groups |-> groups,
                             session_string |-> session_string, t |-> t]])

\* POST /start_listener, up to its first suspension or its answer.
start_listener(a, raw) ==
  LET conf == db[a]
      groups == norm_groups(raw)
      prior_groups == conf.groups
      t == DictGet(LISTENERS, a)
  IN
  IF NoSession(conf)
  THEN /\ ret' = Response("start", a, "error_400")
       /\ UNCHANGED <<db, PENDING, LISTENERS, tasks, req, disk, issued>>
  ELSE /\ db' = [db EXCEPT ![a].groups = groups]
       /\ IF Running(t) /\ SameGroups(prior_groups, groups)
          THEN /\ ret' = Response("start", a, "already_running")
               /\ UNCHANGED <<LISTENERS, tasks, req>>
          ELSE IF Running(t)
          THEN /\ FreeReqs # {}
               /\ CanSpawn
               /\ Suspend(Min(FreeReqs), "start", a, conf.session_string,
                          groups, t, LISTENERS)
               /\ ret' = ret
          ELSE /\ CanSpawn
               /\ SpawnAndRegister(a, conf.session_string, groups, req)
       /\ UNCHANGED <<PENDING, disk, issued>>

\* POST /stop_listener/{phone}, up to its first suspension or its answer.
stop_listener(a) ==
  LET t == DictGet(LISTENERS, a) IN
  /\ IF t = 0
     THEN /\ ret' = Response("stop", a, "not_running")
          /\ Commit(tasks, DictPop(LISTENERS, a), req)
     ELSE IF Running(t)
     THEN /\ FreeReqs # {}
          /\ Suspend(Min(FreeReqs), "stop", a, 0, <<>>, t, DictPop(LISTENERS, a))
          /\ ret' = ret
     ELSE /\ ret' = Response("stop", a, "stopped")
          /\ Commit(tasks, DictPop(LISTENERS, a), req)
  /\ UNCHANGED <<db, PENDING, disk, issued>>

\* The code after the wait: the except clause caught a TimeoutError, or
\* wait_for returned the task's result.
AfterWait(r) ==
  LET rq == [req EXCEPT ![r] = NoReq] IN
  IF req[r].op = "start"
  THEN SpawnAndRegister(req[r].phone, req[r].session_string, req[r].groups, rq)
  ELSE /\ ret' = Response("stop", req[r].phone, "stopped")
       /\ Commit(tasks, LISTENERS, rq)

\* asyncio.wait_for: the awaited task is done before the timeout.  wait_for
\* returns fut.result(); for a cancelled task that raises CancelledError,
\* which "except Exception" does not catch: it leaves the handler.
WaitForDone(r) ==
  /\ req[r].pc = "wait"
  /\ Done(tasks, req[r].t)
  /\ IF tasks[req[r].t].exit = "cancelled"
     THEN /\ ret' = Response(req[r].op, req[r].phone, "CancelledError")
          /\ Commit(tasks, LISTENERS, [req EXCEPT ![r] = NoReq])
     ELSE AfterWait(r)
  /\ UNCHANGED <<db, PENDING, disk, issued>>

\* asyncio.wait_for: the timeout passes with the task not done.  wait_for
\* cancels the task again and waits until it is done.  The timer is due five
\* seconds after the handler's own t.cancel(), which the loop delivers on its
\* next iteration: by then the task is in its finally clause.
WaitForNoTimeout(r) ==
  /\ req[r].pc = "wait"
  /\ FALSE
  /\ UNCHANGED vars

WaitForTimeout(r) ==
  /\ req[r].pc = "wait"
  /\ ~Done(tasks, req[r].t)
  /\ tasks[req[r].t].pc = "stopping"
  /\ Commit(Cancel(tasks, req[r].t), LISTENERS, [req EXCEPT ![r].pc = "twait"])
  /\ UNCHANGED <<db, PENDING, disk, ret, issued>>

\* asyncio.wait_for after a timeout: the task is done at last; wait_for
\* raises TimeoutError, which the handler catches.
WaitForTimedOut(r) ==
  /\ req[r].pc = "twait"
  /\ Done(tasks, req[r].t)
  /\ AfterWait(r)
  /\ UNCHANGED <<db, PENDING, disk, issued>>

\* ------------------------------------------------------------- listener task
Alive(t) == tasks[t].pc \notin {"unused", "unborn", "ended"}

\* The task's next step runs as written only when no cancellation is pending.
CanStep(t, pc) == tasks[t].pc = pc /\ ~tasks[t].must_cancel

TaskStep(ts) ==
  /\ Commit(ts, LISTENERS, req)
  /\ UNCHANGED <<db, PENDING, ret, issued>>

\* listener_worker.py 35-36: build the client, await client.connect()
TaskStart(t) ==
  /\ CanStep(t, "starting")
  /\ TaskStep([tasks EXCEPT ![t].pc = "connecting", ![t].client = "connected"])
  /\ UNCHANGED disk

\* listener_worker.py 62-70: the requested ids found in the dialogs
ResolveAll(norm_ids) == norm_ids
Resolve(norm_ids) == SelectSeq(norm_ids, LAMBDA gid : gid \in Dialogs)

\* listener_worker.py 75-83
SeenOf(existing) == {LogKey(existing[i]) : i \in 1..Len(existing)}

\* listener_worker.py 39-99: is_user_authorized() answers.  False returns,
\* which runs the finally clause (await client.disconnect()).  True goes on:
\* resolve the groups in the dialogs, load the existing log, attach the
\* handler unless nothing resolved, and await run_until_disconnected().
TaskAuthorize(t, authorized) ==
  LET resolved == Resolve(tasks[t].groups)
      existing == ReadLog(disk, tasks[t].phone)
  IN
  /\ CanStep(t, "connecting")
  /\ TaskStep(IF authorized
              THEN [tasks EXCEPT ![t].resolved = resolved,
                                 ![t].collected = existing,
                                 ![t].seen = SeenOf(existing),
                                 ![t].pc = IF resolved = <<>> THEN "idle"
                                           ELSE "listening"]
              ELSE [tasks EXCEPT ![t].pc = "stopping", ![t].exit = "return"])
  /\ UNCHANGED disk

\* A CancelledError is thrown into the task where it waits.  A task that has
\* not run yet ends at once.  In the try block the error is re-raised (128-130)
\* and the finally clause awaits client.disconnect().  In the finally clause
\* the error leaves the task ("except Exception" of 137 does not catch it)
\* while disconnect() is under way: the connection is closed or still open.
TaskCancelled(t, closed) ==
  /\ Alive(t)
  /\ tasks[t].must_cancel
  /\ tasks[t].pc # "stopping" => closed
  /\ TaskStep(
       CASE tasks[t].pc = "starting" ->
              [tasks EXCEPT ![t].pc = "ended", ![t].exit = "cancelled",
                            ![t].must_cancel = FALSE]
         [] tasks[t].pc = "stopping" ->
              [tasks EXCEPT ![t].pc = "ended", ![t].exit = "cancelled",
                            ![t].must_cancel = FALSE,
                            ![t].client = IF closed THEN "disconnected" ELSE "connected"]
         [] OTHER ->
              [tasks EXCEPT ![t].pc = "stopping", ![t].exit = "cancelled",
                            ![t].must_cancel = FALSE])
  /\ UNCHANGED disk

\* listener_worker.py 133-138: client.disconnect() completes, the task ends.
TaskDisconnected(t) ==
  /\ CanStep(t, "stopping")
  /\ TaskStep([tasks EXCEPT ![t].pc = "ended", ![t].client = "disconnected"])
  /\ UNCHANGED disk

\* ------------------------------------------------------------- event handler
\* The client calls the handler for a new message of a subscribed chat for as
\* long as the client is connected.
Subscribed(t) == {tasks[t].resolved[i] : i \in 1..Len(tasks[t].resolved)}

Delivers(t, e) ==
  /\ tasks[t].client = "connected"
  /\ e.chat_id \in Subscribed(t)

Record(e) ==
  [timestamp |-> e.date, text |-> e.raw_text,
   chat_id |-> e.chat_id, message_id |-> e.id]

IsDuplicate(seen, key) == key \in seen

\* listener_worker.py 100-124.  written: the steps of _atomic_write_json that
\* succeed; fewer than 3 is a storage fault, whose exception line 123 logs.
handler(t, e, written) ==
  LET key == <<e.chat_id, e.id>>
      collected == Append(tasks[t].collected, Record(e))
  IN
  /\ Delivers(t, e)
  /\ IF IsDuplicate(tasks[t].seen, key)
     THEN /\ written = 3
          /\ UNCHANGED <<tasks, LISTENERS, req, disk>>
     ELSE /\ Commit([tasks EXCEPT ![t].collected = collected,
                                  ![t].seen = @ \cup {key}], LISTENERS, req)
          /\ disk' = WriteSteps(written, disk, tasks[t].phone, collected)
  /\ UNCHANGED <<db, PENDING, ret, issued>>

\* The process is killed while the handler persists an append, after k steps
\* of _atomic_write_json; the service starts again with empty memory and the
\* files as they are.
Killed(t, e, k) ==
  /\ Delivers(t, e)
  /\ ~IsDuplicate(tasks[t].seen, <<e.chat_id, e.id>>)
  /\ disk' = WriteSteps(k, disk, tasks[t].phone, Append(tasks[t].collected, Record(e)))
  /\ PENDING' = {}
  /\ LISTENERS' = [a \in Phones |-> {}]
  /\ tasks' = [x \in TaskIds |-> IF tasks[x].pc = "unused" THEN tasks[x] ELSE NoTask]
  /\ req' = [r \in ReqIds |-> IF req[r].pc = "unused" THEN req[r] ELSE NoReq]
  /\ ret' = NoRet
  /\ UNCHANGED <<db, issued>>

\* ------------------------------------------------------------- specification
Requests(inputs) == \E a \in Accounts :
  \/ \E raw \in inputs : start_listener(a, raw)
  \/ stop_listener(a)
  \/ session_logout(a)

Sessions == \E a \in Accounts, ok \in BOOLEAN :
  \/ session_init(a, ok)
  \/ session_complete(a, ok)

Waits == \E r \in ReqIds :
  \/ WaitForDone(r)
  \/ WaitForTimeout(r)
  \/ WaitForTimedOut(r)

\* closes: what a disconnect() that a second cancellation interrupts may have
\* done to the connection (BOOLEAN: closed it or left it open).
TaskSteps(closes) == \E t \in TaskIds :
  \/ TaskStart(t)
  \/ \E ok \in BOOLEAN : TaskAuthorize(t, ok)
  \/ \E closed \in closes : TaskCancelled(t, closed)
  \/ TaskDisconnected(t)

\* outcomes: the steps of _atomic_write_json that a handler's write may
\* complete (3: all of them).
Handlers(events, outcomes) == \E t \in TaskIds, e \in events, w \in outcomes :
  handler(t, e, w)

Kills(events) == \E t \in TaskIds, e \in events, k \in 0..3 : Killed(t, e, k)

Next ==
  \/ Requests(RawGroupLists) \/ Sessions \/ Waits \/ TaskSteps(BOOLEAN)
  \/ Handlers(Events, 0..3) \/ Kills(Events)

Spec == Init /\ [][Next]_vars

\* The registry and the listeners' lifecycle, without message traffic.
RegistryTasks == 2
RegistryReqs  == 2

IntRef(n) == [kind |-> "int", v |-> n]
NumStr(n) == [kind |-> "numstr", v |-> n]
BadStr == [kind |-> "badstr", v |-> 0]

RegistryInputs == {<<IntRef(1)>>, <<IntRef(1), IntRef(2)>>, <<NumStr(1), BadStr>>}

InitRegistry == Started({NoConf, Configured}, RegistryTasks, RegistryReqs)

NextRegistry == Requests(RegistryInputs) \/ Waits \/ TaskSteps(BOOLEAN)

SpecRegistry == InitRegistry /\ [][NextRegistry]_vars

\* Concurrent start and stop requests on one account, three tasks at a time.
\* Message traffic is left out, so whether an interrupted disconnect() closed
\* the connection is not observed.
RaceTasks == 3
RaceReqs  == 2

RaceInputs == {<<IntRef(1)>>, <<IntRef(2)>>}

InitRace == Started({Configured}, RaceTasks, RaceReqs)

StartStop(inputs) == \E a \in Accounts :
  \/ \E raw \in inputs : start_listener(a, raw)
  \/ stop_listener(a)

NextStartStop == StartStop(RaceInputs) \/ Waits \/ TaskSteps({TRUE})

SpecStartStop == InitRace /\ [][NextStartStop]_vars

\* Concurrent start requests on one account, three tasks at a time, and one
\* message that the backend delivers with either payload.
Starts(inputs) == \E a \in Accounts, raw \in inputs : start_listener(a, raw)

WriterEvents == {e \in Events : e.id = 1}

NextWriters ==
  Starts(RaceInputs) \/ Waits \/ TaskSteps({TRUE}) \/ Handlers(WriterEvents, {3})

SpecWriters == InitRace /\ [][NextWriters]_vars

\* One listener at a time, two messages, storage faults and process kills.
CrashTasks == 1
CrashReqs  == 1

CrashInputs == {<<IntRef(1)>>, <<IntRef(1), IntRef(3)>>, <<IntRef(3)>>}

CrashEvents == {e \in Events : e.raw_text = "hello"}

InitCrash == Started({Configured}, CrashTasks, CrashReqs)

NextCrash ==
  \/ StartStop(CrashInputs) \/ Waits \/ TaskSteps(BOOLEAN)
  \/ Handlers(CrashEvents, 0..3) \/ Kills(CrashEvents)

SpecCrash == InitCrash /\ [][NextCrash]_vars

\* Start and stop requests under the event loop's scheduling: a timer that is
\* due fires, a handler whose wait is over resumes, a pending cancellation is
\* thrown into its task.  Nothing makes client.disconnect() return.
InitLive == Started({Configured}, RegistryTasks, RegistryReqs)

NextLive == StartStop(RaceInputs) \/ Waits \/ TaskSteps(BOOLEAN)

Scheduling ==
  /\ \A r \in ReqIds :
       /\ WF_vars(WaitForDone(r))
       /\ WF_vars(WaitForTimeout(r))
       /\ WF_vars(WaitForTimedOut(r))
  /\ \A t \in TaskIds : WF_vars(\E closed \in BOOLEAN : TaskCancelled(t, closed))

SpecLive == InitLive /\ [][NextLive]_vars /\ Scheduling

\* Two phones with a stored session each: start and logout for either, and a
\* new login for the first.  Every start asks for the same groups, so none
\* waits for an old task.
LogoutTasks == 2
LogoutReqs  == 0

LogoutInputs == {<<IntRef(1)>>}

InitLogout == StartedOn(Phones, {Configured}, LogoutTasks, LogoutReqs)

StartLogout(phones, inputs) == \E a \in phones :
  \/ \E raw \in inputs : start_listener(a, raw)
  \/ session_logout(a)

NextLogout ==
  StartLogout(Phones, LogoutInputs) \/ Sessions \/ TaskSteps({TRUE})

SpecLogout == InitLogout /\ [][NextLogout]_vars

\* One listener restarted with the same ids in another order, and with an id
\* that is in no dialog but that the backend resolves when asked for it.
GroupsTasks == 2
GroupsReqs  == 1

GroupsInputs == {<<IntRef(1), IntRef(2)>>, <<IntRef(2), IntRef(1)>>, <<IntRef(4)>>}

InitGroups == Started({Configured}, GroupsTasks, GroupsReqs)

NextGroups == Starts(GroupsInputs) \/ Waits \/ TaskSteps({TRUE})

SpecGroups == InitGroups /\ [][NextGroups]_vars

\* ------------------------------------------------------------- claims
\* cancel() was called on the task and the task has not ended since.
Signalled(t) == tasks[t].must_cancel \/ tasks[t].exit = "cancelled"

InFlight(a) == {r \in ReqIds : req[r].phone = a}

\* C1: for every interleaving of concurrent start and stop requests on an
\* account, the registry holds at most one handle of a task that is not done
\* under the account's key.
C1_SingleHandle ==
  \A a \in Accounts :
    Cardinality({t \in LISTENERS[a] : ~Done(tasks, t)}) <= 1

\* A start registered a task while a stop request is suspended in its wait.
C1_Witness ==
  \E a \in Accounts, r \in ReqIds :
    /\ req[r].op = "stop" /\ req[r].phone = a
    /\ \E t \in LISTENERS[a] : Alive(t) /\ t # req[r].t

\* C2: for each account at most one task exists that has neither ended nor
\* been signalled for cancellation, and the registry holds it.
C2_NoDuplicateOrOrphan ==
  \A a \in Accounts :
    LET live == {t \in TaskIds : tasks[t].phone = a /\ Alive(t) /\ ~Signalled(t)}
    IN  Cardinality(live) <= 1 /\ live \subseteq LISTENERS[a]

\* C3: in the state a completed start(acc, G) leaves (the session stored, its
\* groups persisted, a task registered and running, no request of the account
\* in flight), a
\* second start(acc, G) answers "already_running" and neither signals nor
\* spawns a task nor changes the registry.
C3_IdempotentStart ==
  [][\A a \in Accounts, raw \in RawGroupLists :
       ( /\ ret.op = "start" /\ ret.phone = a
         /\ ret.status \in {"started", "already_running"}
         /\ InFlight(a) = {}
         /\ db[a].exists /\ db[a].session_string # 0
         /\ db[a].groups = norm_groups(raw)
         /\ Running(DictGet(LISTENERS, a))
         /\ start_listener(a, raw) )
       => /\ ret' = Response("start", a, "already_running")
          /\ UNCHANGED <<tasks, LISTENERS, req>>]_vars

\* The second of two equal starts has answered; the one task is untouched.
C3_Witness ==
  \E a \in Accounts :
    /\ ret = Response("start", a, "already_running")
    /\ InFlight(a) = {}
    /\ \E t \in LISTENERS[a] : Alive(t) /\ ~Signalled(t)
    /\ Cardinality({t \in TaskIds : tasks[t].pc \notin {"unused", "unborn"}}) = 1

\* C4: a start request that found a running task with other groups signalled
\* it, and when the request completes it has answered "started", a new task
\* with the request's groups is registered, and the persisted groups are the
\* request's when no other start of the account is in flight.
C4_RestartOnChange ==
  [][\A r \in ReqIds :
       (req[r].op = "start" /\ req'[r].pc = "free")
       => LET a == req[r].phone
              new == DictGet(LISTENERS', a)
          IN  /\ ret' = Response("start", a, "started")
              /\ new # 0 /\ new # req[r].t
              /\ tasks'[new].pc = "starting"
              /\ tasks'[new].groups = req[r].groups
              /\ InFlight(a) = {r} => db'[a].groups = req[r].groups]_vars

\* C5: start for an account with no stored record or no session string
\* answers an error and changes neither the registry, the tasks, the stored
\* records nor the files.
C5_StartWithoutSession ==
  [][\A a \in Accounts, raw \in RawGroupLists :
       ((~db[a].exists \/ db[a].session_string = 0) /\ start_listener(a, raw))
       => /\ ret' = Response("start", a, "error_400")
          /\ UNCHANGED <<db, PENDING, LISTENERS, tasks, req, disk>>]_vars

\* A start was refused for want of a session.
C5_Witness ==
  \E a \in Accounts :
    /\ ret = Response("start", a, "error_400")
    /\ ~db[a].exists \/ db[a].session_string = 0

\* C6: stop answers "not_running" and changes nothing when the registry has
\* no handle; otherwise it removes the handle, signals a running task, and
\* the request answers "stopped" when it completes.
C6_Stop ==
  [][/\ \A a \in Accounts :
          stop_listener(a) =>
            LET t == DictGet(LISTENERS, a) IN
            IF t = 0
            THEN /\ ret' = Response("stop", a, "not_running")
                 /\ UNCHANGED <<db, LISTENERS, tasks, req, disk>>
            ELSE /\ LISTENERS'[a] = {}
                 /\ Running(t) => tasks'[t].must_cancel
                 /\ ~Running(t) => ret' = Response("stop", a, "stopped")
     /\ \A r \in ReqIds :
          (req[r].op = "stop" /\ req'[r].pc = "free")
          => ret' = Response("stop", req[r].phone, "stopped")]_vars

\* C7: the persisted log of an account holds each (chat_id, message_id) once,
\* and a record once in the log stays in it as it is: no later delivery of its
\* pair, by whichever task's handler, replaces or removes it.
UniqueKeys(log) ==
  \A i, j \in 1..Len(log) : LogKey(log[i]) = LogKey(log[j]) => i = j

C8_CrashSafety ==
  [][\A t \in TaskIds, e \in Events, k \in 0..3 :
       Killed(t, e, k) =>
         LET a == tasks[t].phone IN
         /\ disk'[a].data.state # "corrupt"
         /\ ReadLog(disk', a) \in
              {ReadLog(disk, a), Append(tasks[t].collected, Record(e))}]_vars

\* The process was killed in the second append, the temp file half written:
\* the log still holds the first record.
C8_Witness ==
  \E a \in Accounts :
    /\ ret = NoRet
    /\ disk[a].tmp.state = "corrupt"
    /\ Len(get_data(a)) = 1
    /\ \A t \in TaskIds : ~Alive(t)

\* C9: a start with ids the account has no dialog for is accepted like any
\* other; the task subscribes to the ids found in the dialogs only; with none
\* found it idles: it has no subscription, leaves that state only when
\* cancelled (or when the process is killed), and while no other client of
\* the account is connected the files do not change.
GroupSet(groups) == {groups[i] : i \in 1..Len(groups)}

Idle(t) == tasks[t].pc = "idle"

TimedOut(r) == req[r].pc = "twait"

C11_ReleasedBeforeEnd ==
  \A t \in TaskIds : Done(tasks, t) => tasks[t].client # "connected"

\* C12: logout of a phone clears its session string, empties its registry
\* entry and signals its registered task if that is not done; it leaves the
\* phone's credentials and groups, every file, every other phone's record and
\* handle and every other task as they are; and a start for a phone whose
\* session string is cleared answers the error and changes nothing.
C12_LogoutFrame ==
  [][\A a \in Phones :
       /\ session_logout(a) =>
            /\ db'[a].session_string = 0
            /\ db'[a].exists = db[a].exists
            /\ db'[a].api = db[a].api
            /\ db'[a].groups = db[a].groups
            /\ LISTENERS'[a] = {}
            /\ \A t \in LISTENERS[a] : ~Done(tasks, t) => tasks'[t].must_cancel
            /\ \A t \in TaskIds \ LISTENERS[a] : tasks'[t] = tasks[t]
            /\ \A b \in Phones \ {a} :
                 db'[b] = db[b] /\ LISTENERS'[b] = LISTENERS[b]
            /\ UNCHANGED <<disk, PENDING, req>>
       /\ \A raw \in RawGroupLists :
            (db[a].exists /\ db[a].session_string = 0 /\ start_listener(a, raw))
            => /\ ret' = Response("start", a, "error_400")
               /\ UNCHANGED <<db, LISTENERS, tasks, req, disk>>]_vars

\* The first phone has logged out with its listener running, the second
\* phone's listener is registered and not signalled.
C12_Witness ==
  /\ ret = Response("logout", "p1", "cleared")
  /\ db["p1"].session_string = 0 /\ db["p1"].groups # <<>>
  /\ \E t \in TaskIds : tasks[t].phone = "p1" /\ Signalled(t)
  /\ \E t \in LISTENERS["p2"] : Alive(t) /\ ~Signalled(t)

\* C13: a start that passes the session check has persisted the ids of its
\* request, in the request's order and without the entries int() rejects,
\* when its handler first suspends or answers; and the persisted groups of an
\* account change in no step but a start of that account, so without another
\* start in between they are still the call's when it returns.
RECURSIVE IntsOf(_)
IntsOf(raw) ==
  IF raw = <<>> THEN <<>>
  ELSE IF Head(raw).kind = "badstr" THEN IntsOf(Tail(raw))
       ELSE <<Head(raw).v>> \o IntsOf(Tail(raw))

C13_GroupsPersisted ==
  [][\A a \in Accounts :
       /\ \A raw \in RawGroupLists :
            (db[a].exists /\ db[a].session_string # 0 /\ start_listener(a, raw))
            => db'[a].groups = IntsOf(raw)
       /\ db'[a].groups # db[a].groups
            => \E raw \in RawGroupLists : start_listener(a, raw)
       /\ \A r \in ReqIds :
            (req[r].op = "start" /\ req[r].phone = a /\ req'[r].pc = "free")
            => db'[a].groups = db[a].groups]_vars

\* A start is suspended waiting for a task that was started with other
\* groups; its own are already the persisted ones.
C13_Witness ==
  \E r \in ReqIds :
    /\ req[r].op = "start"
    /\ db[req[r].phone].groups = req[r].groups
    /\ tasks[req[r].t].groups # req[r].groups
    /\ req[r].groups = <<1, 2>>

\* C14: a step that creates a listener task for an account finds a session
\* string stored for the account and gives the task that string.
C14_SpawnNeedsSession ==
  [][\A t \in TaskIds :
       (tasks[t].pc = "unborn" /\ tasks'[t].pc = "starting")
       => LET a == tasks'[t].phone IN
          /\ db[a].exists /\ db[a].session_string # 0
          /\ tasks'[t].session_string = db[a].session_string]_vars

\* C15: a start that answers "already_running" for groups G leaves a
\* registered task that is not done, was not signalled for cancellation and
\* was started with G.
C15_AlreadyRunningMeansRunning ==
  [][\A a \in Accounts, raw \in RawGroupLists :
       ( /\ start_listener(a, raw)
         /\ ret' = Response("start", a, "already_running")
         /\ UNCHANGED <<tasks, req>> )
       => LET t == DictGet(LISTENERS', a) IN
          /\ t # 0
          /\ ~Done(tasks', t)
          /\ ~tasks'[t].must_cancel /\ tasks'[t].exit # "cancelled"
          /\ tasks'[t].groups = norm_groups(raw)]_vars

\* C16: each content of an account's persisted log is a prefix of every later
\* content.
IsPrefix(s, t) == Len(s) <= Len(t) /\ \A i \in 1..Len(s) : s[i] = t[i]

C16_AppendOnly ==
  [][\A a \in Accounts : IsPrefix(ReadLog(disk, a), ReadLog(disk', a))]_vars

\* C17: the registry holds no handle of a task that ended without being
\* cancelled, and a stop for an account whose listener ended so answers
\* "not_running".
EndedOnItsOwn(t) == Done(tasks, t) /\ tasks[t].exit # "cancelled"

C17_HandleGoneAfterNaturalEnd ==
  /\ [](\A a \in Accounts : \A t \in LISTENERS[a] : ~EndedOnItsOwn(t))
  /\ [][\A a \in Accounts :
         (stop_listener(a) /\ \A t \in LISTENERS[a] : EndedOnItsOwn(t))
         => ret' = Response("stop", a, "not_running")]_vars

\* C18: a handler whose write of the log fails (fewer than all steps of the
\* write succeed) leaves the task's in-memory log and key set as they were.
C18_MemoryUnchangedOnWriteFailure ==
  [][\A t \in TaskIds, e \in Events, w \in 0..2 :
       handler(t, e, w) =>
         /\ tasks'[t].collected = tasks[t].collected
         /\ tasks'[t].seen = tasks[t].seen]_vars

\* C19: with a listener registered and running that was started with the
\* persisted groups, and no request in flight, a start with the same ids in
\* any order answers "already_running" and changes no task.
C19_GroupsComparedAsSet ==
  [][\A a \in Accounts, raw \in RawGroupLists :
       LET t == DictGet(LISTENERS, a) IN
       ( /\ db[a].exists /\ db[a].session_string # 0
         /\ InFlight(a) = {}
         /\ Running(t) /\ ~Signalled(t)
         /\ tasks[t].groups = db[a].groups
         /\ GroupSet(norm_groups(raw)) = GroupSet(tasks[t].groups)
         /\ start_listener(a, raw) )
       => /\ ret' = Response("start", a, "already_running")
          /\ UNCHANGED <<tasks, LISTENERS, req>>]_vars

\* C20: a listener subscribes to the requested ids that are in the dialogs
\* and to those that are not but that the backend resolves one by one.
C20_TwoTierResolution ==
  \A t \in TaskIds :
    tasks[t].pc \in {"listening", "idle"} =>
      Subscribed(t) = GroupSet(tasks[t].groups) \cap Entities
=============================================================================
